---- MODULE Spec2Model ----
(***************************************************************************)
(* survex-rs: the record interpreter load_from_path (src/src/read.rs), the *)
(* station and graph registry SurveyData (src/src/data.rs), Station and    *)
(* LRUD (src/src/station.rs) and Point (src/src/point.rs).                 *)
(*                                                                         *)
(* Floating point values are modelled by integers: coordinates are whole   *)
(* metres, LRUD readings are whole tenths, and an edge weight is the       *)
(* Euclidean distance in thousandths (the square root rounded down).       *)
(* The img.c decoder is external: each call of img_read_item returns one   *)
(* item drawn from a bounded alphabet.  Uuid::new_v4 draws 122 random      *)
(* bits; the model takes the collision-free outcome, an identifier that    *)
(* is neither a label text of the input nor an identifier drawn earlier.   *)
(* The label variable is a &str into the decoder's label field; the model  *)
(* takes it to keep the text it was assigned until its next assignment.    *)
(***************************************************************************)
EXTENDS Integers, Sequences, FiniteSets, TLC

\* Most records img_read_item returns before the end of the data or an error.
MaxRecords == 4

\* ------------------------------------------------------------------ Point

Point_new(x, y, z) == [x |-> x, y |-> y, z |-> z]

\* Thousandths per metre in the fixed-point reading of an f64 edge weight.
Milli == 1000

\* The integer square root of n, by bisection on lo <= sqrt(n) < hi; the test
\* mid <= n \div mid is mid * mid <= n without the overflow.
RECURSIVE SqrtBetween(_, _, _)
SqrtBetween(n, lo, hi) ==
    IF hi - lo <= 1 THEN lo
    ELSE LET mid == (lo + hi) \div 2
         IN  IF mid <= n \div mid THEN SqrtBetween(n, mid, hi)
                               ELSE SqrtBetween(n, lo, mid)

sqrt(n) == SqrtBetween(n, 0, n + 1)

powi2(v) == v * v

\* The sum of the coordinate differences instead of the root of their squares.
Point_distance_Taxicab(self, other) ==
    LET abs(v) == IF v < 0 THEN 0 - v ELSE v
    IN  (abs(self.x - other.x) + abs(self.y - other.y) + abs(self.z - other.z)) * Milli

\* Point::distance, in thousandths.
Point_distance(self, other) ==
    sqrt((powi2(self.x - other.x) + powi2(self.y - other.y)
          + powi2(self.z - other.z)) * Milli * Milli)

\* ------------------------------------------------------------------- LRUD

None == [some |-> FALSE, v |-> 0]
Some(v) == [some |-> TRUE, v |-> v]

LRUD_default == [left |-> None, right |-> None, up |-> None, down |-> None]

\* A merge instead of a replacement: a negative input keeps the old reading.
LRUD_update_Merge(self, left, right, up, down) ==
    [self EXCEPT !.left  = IF left < 0 THEN @ ELSE Some(left),
                 !.right = IF right < 0 THEN @ ELSE Some(right),
                 !.up    = IF up < 0 THEN @ ELSE Some(up),
                 !.down  = IF down < 0 THEN @ ELSE Some(down)]

LRUD_update(self, left, right, up, down) ==
    [self EXCEPT !.left  = IF left < 0 THEN None ELSE Some(left),
                 !.right = IF right < 0 THEN None ELSE Some(right),
                 !.up    = IF up < 0 THEN None ELSE Some(up),
                 !.down  = IF down < 0 THEN None ELSE Some(down)]

\* ---------------------------------------------------------------- Station

Station_new(label, coords, index) ==
    [label |-> label, coords |-> coords, index |-> index,
     lrud |-> LRUD_default,
     surface |-> FALSE, underground |-> FALSE, entrance |-> FALSE,
     exported |-> FALSE, fixed |-> FALSE, anonymous |-> FALSE, wall |-> FALSE]

\* ------------------------------------------------------------- SurveyData

\* The loop "for station in &self.stations { if ... { return Some } } None":
\* the first of the positions that pass the test, 0 for None.
First(hits) == IF hits = {} THEN 0 ELSE CHOOSE i \in hits : \A j \in hits : i <= j

get_by_label(stations, label) ==
    First({i \in 1..Len(stations) : stations[i].label = label})

\* str::contains: the fragment is a substring of the label.
contains(label, fragment) ==
    \E i \in 1..(Len(label) - Len(fragment) + 1) :
        SubSeq(label, i, i + Len(fragment) - 1) = fragment

\* The first of the stations whose label contains the fragment, whether or
\* not others contain it too.
get_by_label_part_FirstMatch(stations, label) ==
    First({i \in 1..Len(stations) : contains(stations[i].label, label)})

\* SurveyData::get_by_label_part: matches holds the positions of the
\* stations whose label contains the fragment, in the order of the vector.
get_by_label_part(stations, label) ==
    LET matches == SelectSeq([i \in 1..Len(stations) |-> i],
                             LAMBDA i : contains(stations[i].label, label))
        exact == {k \in 1..Len(matches) : stations[matches[k]].label = label}
    IN  IF Len(matches) = 1 THEN matches[1]
        ELSE IF exact # {} THEN matches[First(exact)]
        ELSE 0

\* The last station at the coordinates instead of the first.
get_by_coords_Last(stations, coords) ==
    LET hits == {i \in 1..Len(stations) : stations[i].coords = coords}
    IN  IF hits = {} THEN 0 ELSE CHOOSE i \in hits : \A j \in hits : j <= i

get_by_coords(stations, coords) ==
    First({i \in 1..Len(stations) : stations[i].coords = coords})

get_by_index(stations, index) ==
    First({i \in 1..Len(stations) : stations[i].index = index})

\* The new node's index taken after the push instead of before it.
add_node_OffByOne(nodes, weight) ==
    [nodes |-> Append(nodes, weight), index |-> Len(nodes) + 1]

\* petgraph's Graph::add_node: the new node's index is the node count.
add_node(nodes, weight) == [nodes |-> Append(nodes, weight), index |-> Len(nodes)]

\* petgraph's Graph::add_edge on an undirected graph: edges are kept in
\* insertion order, parallel edges allowed.
add_edge(edges, a, b, weight) == Append(edges, [a |-> a, b |-> b, weight |-> weight])

\* Without the lookup: every call registers a new station and graph node.
add_or_update_NoLookup(stations, nodes, coords, label) ==
    LET added == add_node(nodes, label)
    IN  [stations |-> Append(stations, Station_new(label, coords, added.index)),
         nodes |-> added.nodes,
         at |-> Len(stations) + 1,
         index |-> added.index]

\* An existing station is returned as it is, its coordinates not overwritten.
add_or_update_KeepCoords(stations, nodes, coords, label) ==
    LET found == get_by_label(stations, label)
    IN  IF found # 0
        THEN [stations |-> stations,
              nodes |-> nodes,
              at |-> found,
              index |-> stations[found].index]
        ELSE add_or_update_NoLookup(stations, nodes, coords, label)

\* An existing station is rebuilt from its label, the new coordinates and its
\* index, which resets its flags and its LRUD.
add_or_update_Rebuild(stations, nodes, coords, label) ==
    LET found == get_by_label(stations, label)
    IN  IF found # 0
        THEN [stations |-> [stations EXCEPT
                              ![found] = Station_new(label, coords, @.index)],
              nodes |-> nodes,
              at |-> found,
              index |-> stations[found].index]
        ELSE add_or_update_NoLookup(stations, nodes, coords, label)

\* An existing station is taken out of the vector and pushed again at its
\* end with the new coordinates.
add_or_update_MoveToEnd(stations, nodes, coords, label) ==
    LET found == get_by_label(stations, label)
    IN  IF found # 0
        THEN [stations |-> Append(SubSeq(stations, 1, found - 1)
                                    \o SubSeq(stations, found + 1, Len(stations)),
                                  [stations[found] EXCEPT !.coords = coords]),
              nodes |-> nodes,
              at |-> Len(stations),
              index |-> stations[found].index]
        ELSE add_or_update_NoLookup(stations, nodes, coords, label)

\* SurveyData::add_or_update: the new stations and graph nodes, the position
\* of the returned station in the vector and the returned NodeIndex.
add_or_update(stations, nodes, coords, label) ==
    LET found == get_by_label(stations, label)
    IN  IF found # 0
        THEN [stations |-> [stations EXCEPT ![found].coords = coords],
              nodes |-> nodes,
              at |-> found,
              index |-> stations[found].index]
        ELSE LET added == add_node(nodes, label)
             IN  [stations |-> Append(stations, Station_new(label, coords, added.index)),
                  nodes |-> added.nodes,
                  at |-> Len(stations) + 1,
                  index |-> added.index]

\* ------------------------------------------------------- the img.c decoder

\* The values img_read_item returns.
img_BAD == -2
img_STOP == -1
img_MOVE == 0
img_LINE == 1
img_CROSS == 2
img_LABEL == 3
img_XSECT == 4
img_XSECT_END == 5
img_ERROR_INFO == 6
img_UNKNOWN == 7

\* The coordinates, label texts, flag words and cross-section readings the
\* decoder may deliver.  Flag word 159 is 0x9f, 194 is 0xc2: both carry
\* bits above the low seven.
Points == {Point_new(0, 0, 0), Point_new(3, 4, 0)}
Texts == {"A", "B"}
FlagValues == {0, 32, 159, 194}
XsectFlagValues == {0, 32}
LrudValues == {<<-1, -1, -1, 90>>, <<10, 0, 3, 6>>}

NoPoint == Point_new(0, 0, 0)
NoLrud == <<0, 0, 0, 0>>

\* What one call of img_read_item leaves for the caller: its return value,
\* the point p, and the label, flags and l, r, u, d fields of pimg.
Item(result, p, text, flags, lrud) ==
    [result |-> result, p |-> p, label |-> text, flags |-> flags, lrud |-> lrud]

Bare(result) == Item(result, NoPoint, "", 0, NoLrud)

\* ------------------------------------------------------- load_from_path

VARIABLES
    pc,           \* where load_from_path is: open, read, resolve, ok, err, panic
    pimg,         \* what img_open_survey returned: unset, null or handle
    item,         \* the item the last img_read_item call returned
    stations,     \* data.stations
    nodes,        \* data.graph: node weights, node index i at position i + 1
    edges,        \* data.graph: edges in insertion order
    connections,  \* the buffered (from_coords, to_coords) pairs
    pos,          \* (x, y, z)
    label,        \* the label variable
    uuids,        \* how many identifiers Uuid::new_v4 has drawn
    ci,           \* the resolver's position in connections
    nread,        \* history: the number of img_read_item calls so far
    carried,      \* history: the last item was an XSECT item with bit 0x20 set
                  \* and the item before it an XSECT item with the bit unset
    labelled,     \* history: per label text, the kind of its last LABEL item
    anonCount,    \* history: the number of LABEL items with the anonymous bit
    labelCoords,  \* history: the coordinates LABEL items carried
    forward,      \* history: a LINE item had an endpoint no station was at yet
    flagsSeen,    \* history: per station, the flag masks set in the LABEL items
                  \* that returned it from add_or_update
    call,         \* history: the last call a caller made on a SurveyData
    ncalls        \* history: the number of such calls

vars == <<pc, pimg, item, stations, nodes, edges, connections, pos, label, uuids, ci,
          nread, carried, labelled, anonCount, labelCoords, forward,
          flagsSeen, call, ncalls>>

data == <<stations, nodes, edges>>
history == <<labelled, anonCount, labelCoords, forward, flagsSeen>>
api == <<call, ncalls>>

NoStation == Station_new("", NoPoint, 0)

\* A call on a SurveyData: the operation, its arguments, the position in the
\* stations vector and the NodeIndex it returned or acted on, the station at
\* that position before the call (NoStation when it was new), and the
\* operation, coordinates and label of the call before it.
Call(op, coords, text, flags, lrud, at, index, before, prev) ==
    [op |-> op, coords |-> coords, label |-> text, flags |-> flags, lrud |-> lrud,
     at |-> at, index |-> index, before |-> before, prev |-> prev]

Prev(c) == [op |-> c.op, coords |-> c.coords, label |-> c.label]

NoCall == Call("none", NoPoint, "", 0, NoLrud, 0, 0, NoStation,
               [op |-> "none", coords |-> NoPoint, label |-> ""])

\* SurveyData::new() and the locals of load_from_path before img_open_survey.
Fresh ==
    /\ pimg = "unset"
    /\ item = Bare(img_STOP)   \* no item read yet: nread = 0
    /\ stations = <<>>
    /\ nodes = <<>>
    /\ edges = <<>>
    /\ connections = <<>>
    /\ pos = Point_new(-1, -1, -1)
    /\ label = ""
    /\ uuids = 0
    /\ ci = 1
    /\ nread = 0
    /\ carried = FALSE
    /\ labelled = [t \in Texts |-> "none"]
    /\ anonCount = 0
    /\ labelCoords = {}
    /\ forward = FALSE
    /\ flagsSeen = <<>>
    /\ call = NoCall
    /\ ncalls = 0

Init == pc = "open" /\ Fresh

\* img_open_survey returned a null pointer, taken for a handle: no return.
OpenFail_NoCheck ==
    /\ pc = "open"
    /\ pimg' = "null"
    /\ pc' = "read"
    /\ UNCHANGED <<item, data, connections, pos, label, uuids, ci, nread, carried, history, api>>

\* img_open_survey returned a null pointer: load_from_path returns Err.
OpenFail ==
    /\ pc = "open"
    /\ pimg' = "null"
    /\ pc' = "err"
    /\ UNCHANGED <<item, data, connections, pos, label, uuids, ci, nread, carried, history, api>>

OpenOk ==
    /\ pc = "open"
    /\ pimg' = "handle"
    /\ pc' = "read"
    /\ UNCHANGED <<item, data, connections, pos, label, uuids, ci, nread, carried, history, api>>

\* Whether the bit mask (a power of two) is set in the flag word.
Bit(flags, mask) == (flags \div mask) % 2 = 1

\* flags & 0x7f
Low7(flags) == flags % 128

\* The masks 0x01 .. 0x40 that are set in the flag word.
Masks(flags) == {m \in {1, 2, 4, 8, 16, 32, 64} : Bit(flags, m)}

\* One more call of img_read_item, returning the item it.
Read(it) ==
    /\ pc = "read"
    /\ it.result \in {img_BAD, img_STOP, img_UNKNOWN} \/ nread < MaxRecords
    /\ item' = it
    /\ nread' = nread + 1
    /\ carried' = (/\ it.result = img_XSECT /\ Bit(Low7(it.flags), 32)
                   /\ item.result = img_XSECT /\ ~Bit(Low7(item.flags), 32))
    /\ UNCHANGED <<pimg, api>>

\* The bad item skipped and the reading continued.
ReadBad_Skip ==
    /\ Read(Bare(img_BAD))
    /\ UNCHANGED <<pc, data, connections, pos, label, uuids, ci, history>>

ReadBad ==
    /\ Read(Bare(img_BAD))
    /\ pc' = "panic"
    /\ UNCHANGED <<data, connections, pos, label, uuids, ci, history>>

ReadStop ==
    /\ Read(Bare(img_STOP))
    /\ pc' = "resolve"
    /\ UNCHANGED <<data, connections, pos, label, uuids, ci, history>>

ReadMove ==
    \E p \in Points :
        /\ Read(Item(img_MOVE, p, "", 0, NoLrud))
        /\ pos' = Point_new(p.x, p.y, p.z)
        /\ UNCHANGED <<pc, data, connections, label, uuids, ci, history>>

\* The pair is pushed but (x, y, z) is not moved to the end of the leg.
ReadLine_KeepPos ==
    \E p \in Points :
        /\ Read(Item(img_LINE, p, "", 0, NoLrud))
        /\ LET from_coords == Point_new(pos.x, pos.y, pos.z)
               to_coords == Point_new(p.x, p.y, p.z)
           IN  connections' = Append(connections, <<from_coords, to_coords>>)
        /\ pos' = pos
        /\ forward' = (forward \/ \E q \in {pos, p} :
                                     \A i \in 1..Len(stations) : stations[i].coords # q)
        /\ UNCHANGED <<pc, data, label, uuids, ci, labelled, anonCount, labelCoords,
                       flagsSeen>>

\* The edge inserted when the LINE item is read, if stations are at both ends.
ReadLine_Eager ==
    \E p \in Points :
        /\ Read(Item(img_LINE, p, "", 0, NoLrud))
        /\ LET from_coords == Point_new(pos.x, pos.y, pos.z)
               to_coords == Point_new(p.x, p.y, p.z)
               from == get_by_coords(stations, from_coords)
               to == get_by_coords(stations, to_coords)
           IN  /\ connections' = Append(connections, <<from_coords, to_coords>>)
               /\ edges' = IF from = 0 \/ to = 0 THEN edges
                           ELSE add_edge(edges, stations[from].index,
                                         stations[to].index,
                                         Point_distance(from_coords, to_coords))
        /\ pos' = Point_new(p.x, p.y, p.z)
        /\ forward' = (forward \/ \E q \in {pos, p} :
                                     \A i \in 1..Len(stations) : stations[i].coords # q)
        /\ UNCHANGED <<pc, stations, nodes, label, uuids, ci, labelled, anonCount,
                       labelCoords, flagsSeen>>

ReadLine ==
    \E p \in Points :
        /\ Read(Item(img_LINE, p, "", 0, NoLrud))
        /\ LET from_coords == Point_new(pos.x, pos.y, pos.z)
               to_coords == Point_new(p.x, p.y, p.z)
           IN  connections' = Append(connections, <<from_coords, to_coords>>)
        /\ pos' = Point_new(p.x, p.y, p.z)
        /\ forward' = (forward \/ \E q \in {pos, p} :
                                     \A i \in 1..Len(stations) : stations[i].coords # q)
        /\ UNCHANGED <<pc, data, label, uuids, ci, labelled, anonCount, labelCoords,
                       flagsSeen>>

ReadCross ==
    /\ Read(Bare(img_CROSS))
    /\ UNCHANGED <<pc, data, connections, pos, label, uuids, ci, history>>

\* Uuid::new_v4().to_string(): the n-th identifier drawn during the load.
new_v4(n) == "uuid-" \o ToString(n)

\* The masks of surface and underground exchanged.
set_flags_SwappedMasks(st, flags, uuid) ==
    LET s1 == IF Bit(flags, 2) THEN [st EXCEPT !.surface = TRUE] ELSE st
        s2 == IF Bit(flags, 1) THEN [s1 EXCEPT !.underground = TRUE] ELSE s1
        s3 == IF Bit(flags, 4) THEN [s2 EXCEPT !.entrance = TRUE] ELSE s2
        s4 == IF Bit(flags, 8) THEN [s3 EXCEPT !.exported = TRUE] ELSE s3
        s5 == IF Bit(flags, 16) THEN [s4 EXCEPT !.fixed = TRUE] ELSE s4
        s6 == IF Bit(flags, 32)
              THEN [s5 EXCEPT !.anonymous = TRUE, !.label = uuid] ELSE s5
    IN  IF Bit(flags, 64) THEN [s6 EXCEPT !.wall = TRUE] ELSE s6

\* The anonymous flag set without the station being given a new label.
set_flags_KeepLabel(st, flags, uuid) ==
    LET s1 == IF Bit(flags, 1) THEN [st EXCEPT !.surface = TRUE] ELSE st
        s2 == IF Bit(flags, 2) THEN [s1 EXCEPT !.underground = TRUE] ELSE s1
        s3 == IF Bit(flags, 4) THEN [s2 EXCEPT !.entrance = TRUE] ELSE s2
        s4 == IF Bit(flags, 8) THEN [s3 EXCEPT !.exported = TRUE] ELSE s3
        s5 == IF Bit(flags, 16) THEN [s4 EXCEPT !.fixed = TRUE] ELSE s4
        s6 == IF Bit(flags, 32) THEN [s5 EXCEPT !.anonymous = TRUE] ELSE s5
    IN  IF Bit(flags, 64) THEN [s6 EXCEPT !.wall = TRUE] ELSE s6

\* Every flag assigned from its bit, so that an unset bit clears the flag.
set_flags_Overwrite(st, flags, uuid) ==
    [st EXCEPT !.surface = Bit(flags, 1),
               !.underground = Bit(flags, 2),
               !.entrance = Bit(flags, 4),
               !.exported = Bit(flags, 8),
               !.fixed = Bit(flags, 16),
               !.anonymous = Bit(flags, 32),
               !.label = IF Bit(flags, 32) THEN uuid ELSE @,
               !.wall = Bit(flags, 64)]

\* The LABEL branch after add_or_update: the flags of the returned station,
\* and the generated label of an anonymous one.
set_flags(st, flags, uuid) ==
    LET s1 == IF Bit(flags, 1) THEN [st EXCEPT !.surface = TRUE] ELSE st
        s2 == IF Bit(flags, 2) THEN [s1 EXCEPT !.underground = TRUE] ELSE s1
        s3 == IF Bit(flags, 4) THEN [s2 EXCEPT !.entrance = TRUE] ELSE s2
        s4 == IF Bit(flags, 8) THEN [s3 EXCEPT !.exported = TRUE] ELSE s3
        s5 == IF Bit(flags, 16) THEN [s4 EXCEPT !.fixed = TRUE] ELSE s4
        s6 == IF Bit(flags, 32)
              THEN [s5 EXCEPT !.anonymous = TRUE, !.label = uuid] ELSE s5
    IN  IF Bit(flags, 64) THEN [s6 EXCEPT !.wall = TRUE] ELSE s6

\* The text of a LABEL item kept in a local: label is left as it was.
ReadLabel_LocalText ==
    \E p \in Points, text \in Texts, f \in FlagValues :
        /\ Read(Item(img_LABEL, p, text, f, NoLrud))
        /\ LET flags == Low7(f)
               coords == Point_new(p.x, p.y, p.z)
               upserted == add_or_update(stations, nodes, coords, text)
           IN  /\ stations' = [upserted.stations EXCEPT
                                 ![upserted.at] = set_flags(@, flags, new_v4(uuids + 1))]
               /\ nodes' = upserted.nodes
               /\ uuids' = IF Bit(flags, 32) THEN uuids + 1 ELSE uuids
               /\ labelled' = [labelled EXCEPT
                                 ![text] = IF Bit(flags, 32) THEN "anon" ELSE "named"]
               /\ anonCount' = IF Bit(flags, 32) THEN anonCount + 1 ELSE anonCount
               /\ flagsSeen' = IF upserted.at > Len(flagsSeen)
                               THEN Append(flagsSeen, Masks(flags))
                               ELSE [flagsSeen EXCEPT ![upserted.at] = @ \cup Masks(flags)]
        /\ label' = label
        /\ labelCoords' = labelCoords \cup {p}
        /\ UNCHANGED <<pc, edges, connections, pos, ci, forward>>

\* The graph node renamed with the station: its weight becomes the
\* generated label.
ReadLabel_RenameNode ==
    \E p \in Points, text \in Texts, f \in FlagValues :
        /\ Read(Item(img_LABEL, p, text, f, NoLrud))
        /\ LET flags == Low7(f)
               coords == Point_new(p.x, p.y, p.z)
               upserted == add_or_update(stations, nodes, coords, text)
           IN  /\ stations' = [upserted.stations EXCEPT
                                 ![upserted.at] = set_flags(@, flags, new_v4(uuids + 1))]
               /\ nodes' = IF Bit(flags, 32)
                           THEN [upserted.nodes EXCEPT
                                   ![upserted.index + 1] = new_v4(uuids + 1)]
                           ELSE upserted.nodes
               /\ uuids' = IF Bit(flags, 32) THEN uuids + 1 ELSE uuids
               /\ labelled' = [labelled EXCEPT
                                 ![text] = IF Bit(flags, 32) THEN "anon" ELSE "named"]
               /\ anonCount' = IF Bit(flags, 32) THEN anonCount + 1 ELSE anonCount
               /\ flagsSeen' = IF upserted.at > Len(flagsSeen)
                               THEN Append(flagsSeen, Masks(flags))
                               ELSE [flagsSeen EXCEPT ![upserted.at] = @ \cup Masks(flags)]
        /\ label' = text
        /\ labelCoords' = labelCoords \cup {p}
        /\ UNCHANGED <<pc, edges, connections, pos, ci, forward>>

\* The coordinates of a LABEL item taken for the current position.
ReadLabel_MovesPos ==
    \E p \in Points, text \in Texts, f \in FlagValues :
        /\ Read(Item(img_LABEL, p, text, f, NoLrud))
        /\ LET flags == Low7(f)
               coords == Point_new(p.x, p.y, p.z)
               upserted == add_or_update(stations, nodes, coords, text)
           IN  /\ stations' = [upserted.stations EXCEPT
                                 ![upserted.at] = set_flags(@, flags, new_v4(uuids + 1))]
               /\ nodes' = upserted.nodes
               /\ uuids' = IF Bit(flags, 32) THEN uuids + 1 ELSE uuids
               /\ labelled' = [labelled EXCEPT
                                 ![text] = IF Bit(flags, 32) THEN "anon" ELSE "named"]
               /\ anonCount' = IF Bit(flags, 32) THEN anonCount + 1 ELSE anonCount
               /\ flagsSeen' = IF upserted.at > Len(flagsSeen)
                               THEN Append(flagsSeen, Masks(flags))
                               ELSE [flagsSeen EXCEPT ![upserted.at] = @ \cup Masks(flags)]
               /\ pos' = coords
        /\ label' = text
        /\ labelCoords' = labelCoords \cup {p}
        /\ UNCHANGED <<pc, edges, connections, ci, forward>>

ReadLabel ==
    \E p \in Points, text \in Texts, f \in FlagValues :
        /\ Read(Item(img_LABEL, p, text, f, NoLrud))
        /\ LET flags == Low7(f)
               coords == Point_new(p.x, p.y, p.z)
               upserted == add_or_update(stations, nodes, coords, text)
           IN  /\ stations' = [upserted.stations EXCEPT
                                 ![upserted.at] = set_flags(@, flags, new_v4(uuids + 1))]
               /\ nodes' = upserted.nodes
               /\ uuids' = IF Bit(flags, 32) THEN uuids + 1 ELSE uuids
               /\ labelled' = [labelled EXCEPT
                                 ![text] = IF Bit(flags, 32) THEN "anon" ELSE "named"]
               /\ anonCount' = IF Bit(flags, 32) THEN anonCount + 1 ELSE anonCount
               /\ flagsSeen' = IF upserted.at > Len(flagsSeen)
                               THEN Append(flagsSeen, Masks(flags))
                               ELSE [flagsSeen EXCEPT ![upserted.at] = @ \cup Masks(flags)]
        /\ label' = text
        /\ labelCoords' = labelCoords \cup {p}
        /\ UNCHANGED <<pc, edges, connections, pos, ci, forward>>

\* The label of an XSECT item used for the lookup but not kept for the next.
ReadXsect_NoCarry ==
    \E lrud \in LrudValues, text \in Texts, f \in XsectFlagValues :
        /\ Read(Item(img_XSECT, NoPoint, text, f, lrud))
        /\ LET flags == Low7(f)
               name == IF Bit(flags, 32) THEN label ELSE text
               found == get_by_label(stations, name)
           IN  /\ label' = label
               /\ IF found = 0
                  THEN pc' = "panic" /\ stations' = stations
                  ELSE /\ pc' = pc
                       /\ stations' = [stations EXCEPT ![found].lrud =
                              LRUD_update(@, lrud[1], lrud[2], lrud[3], lrud[4])]
        /\ UNCHANGED <<nodes, edges, connections, pos, uuids, ci, history>>

\* An XSECT item whose station is missing is skipped and the reading goes on.
ReadXsect_SkipMissing ==
    \E lrud \in LrudValues, text \in Texts, f \in XsectFlagValues :
        /\ Read(Item(img_XSECT, NoPoint, text, f, lrud))
        /\ LET flags == Low7(f)
               name == IF Bit(flags, 32) THEN label ELSE text
               found == get_by_label(stations, name)
           IN  /\ label' = name
               /\ pc' = pc
               /\ stations' = IF found = 0 THEN stations
                              ELSE [stations EXCEPT ![found].lrud =
                                       LRUD_update(@, lrud[1], lrud[2], lrud[3], lrud[4])]
        /\ UNCHANGED <<nodes, edges, connections, pos, uuids, ci, history>>

ReadXsect ==
    \E lrud \in LrudValues, text \in Texts, f \in XsectFlagValues :
        /\ Read(Item(img_XSECT, NoPoint, text, f, lrud))
        /\ LET flags == Low7(f)
               name == IF Bit(flags, 32) THEN label ELSE text
               found == get_by_label(stations, name)
           IN  /\ label' = name
               /\ IF found = 0
                  THEN pc' = "panic" /\ stations' = stations
                  ELSE /\ pc' = pc
                       /\ stations' = [stations EXCEPT ![found].lrud =
                              LRUD_update(@, lrud[1], lrud[2], lrud[3], lrud[4])]
        /\ UNCHANGED <<nodes, edges, connections, pos, uuids, ci, history>>

\* The end of a run of cross-sections forgets the label.
ReadXsectEnd_ClearLabel ==
    /\ Read(Bare(img_XSECT_END))
    /\ label' = ""
    /\ UNCHANGED <<pc, data, connections, pos, uuids, ci, history>>

ReadXsectEnd ==
    /\ Read(Bare(img_XSECT_END))
    /\ UNCHANGED <<pc, data, connections, pos, label, uuids, ci, history>>

ReadErrorInfo ==
    /\ Read(Bare(img_ERROR_INFO))
    /\ UNCHANGED <<pc, data, connections, pos, label, uuids, ci, history>>

ReadUnknown ==
    /\ Read(Bare(img_UNKNOWN))
    /\ pc' = "panic"
    /\ UNCHANGED <<data, connections, pos, label, uuids, ci, history>>

\* Both endpoints looked up at p1.
ResolveEdge_SameEndpoint ==
    /\ pc = "resolve"
    /\ ci <= Len(connections)
    /\ LET p1 == connections[ci][1]
           p2 == connections[ci][2]
           from == get_by_coords(stations, p1)
           to == get_by_coords(stations, p1)
       IN  IF from = 0 \/ to = 0
           THEN pc' = "panic" /\ UNCHANGED <<edges, ci>>
           ELSE /\ edges' = add_edge(edges, stations[from].index, stations[to].index,
                                     Point_distance(p1, p2))
                /\ ci' = ci + 1
                /\ pc' = pc
    /\ UNCHANGED <<item, stations, nodes, connections, pos, label, uuids, nread, carried, pimg, history, api>>

\* No second edge between two nodes that an edge already joins.
ResolveEdge_Dedup ==
    /\ pc = "resolve"
    /\ ci <= Len(connections)
    /\ LET p1 == connections[ci][1]
           p2 == connections[ci][2]
           from == get_by_coords(stations, p1)
           to == get_by_coords(stations, p2)
       IN  IF from = 0 \/ to = 0
           THEN pc' = "panic" /\ UNCHANGED <<edges, ci>>
           ELSE /\ edges' =
                     IF \E k \in 1..Len(edges) :
                            {edges[k].a, edges[k].b} =
                                {stations[from].index, stations[to].index}
                     THEN edges
                     ELSE add_edge(edges, stations[from].index, stations[to].index,
                                   Point_distance(p1, p2))
                /\ ci' = ci + 1
                /\ pc' = pc
    /\ UNCHANGED <<item, stations, nodes, connections, pos, label, uuids, nread, carried, pimg, history, api>>

\* One turn of the loop over connections after the file has been read.
ResolveEdge ==
    /\ pc = "resolve"
    /\ ci <= Len(connections)
    /\ LET p1 == connections[ci][1]
           p2 == connections[ci][2]
           from == get_by_coords(stations, p1)
           to == get_by_coords(stations, p2)
       IN  IF from = 0 \/ to = 0
           THEN pc' = "panic" /\ UNCHANGED <<edges, ci>>
           ELSE /\ edges' = add_edge(edges, stations[from].index, stations[to].index,
                                     Point_distance(p1, p2))
                /\ ci' = ci + 1
                /\ pc' = pc
    /\ UNCHANGED <<item, stations, nodes, connections, pos, label, uuids, nread, carried, pimg, history, api>>

\* Ok(data)
Return ==
    /\ pc = "resolve"
    /\ ci > Len(connections)
    /\ pc' = "ok"
    /\ UNCHANGED <<item, data, connections, pos, label, uuids, ci, nread, carried, pimg, history, api>>

Next ==
    \/ OpenFail \/ OpenOk
    \/ ReadBad \/ ReadStop \/ ReadMove \/ ReadLine \/ ReadCross \/ ReadLabel
    \/ ReadXsect \/ ReadXsectEnd \/ ReadErrorInfo \/ ReadUnknown
    \/ ResolveEdge \/ Return

Spec == Init /\ [][Next]_vars

\* ------------------------------------ the mutators, called in any order

\* Most calls a caller makes on one SurveyData.
MaxCalls == 5

load == <<pc, item, connections, pos, label, ci, nread, carried, pimg, history>>

InitApi == pc = "api" /\ Fresh

ApiCall ==
    /\ pc = "api"
    /\ ncalls < MaxCalls
    /\ ncalls' = ncalls + 1
    /\ UNCHANGED load

\* The labels and the fragments a caller passes: AB contains A and B, and u
\* is contained in every generated label.
ApiTexts == Texts \cup {"AB"}
Fragments == {"", "A", "AB", "u"}

\* data.add_or_update(coords, label)
ApiAddOrUpdate ==
    \E coords \in Points,
       text \in ApiTexts \cup {stations[i].label : i \in 1..Len(stations)} :
        /\ ApiCall
        /\ LET upserted == add_or_update(stations, nodes, coords, text)
               found == get_by_label(stations, text)
           IN  /\ stations' = upserted.stations
               /\ nodes' = upserted.nodes
               /\ call' = Call("add_or_update", coords, text, 0, NoLrud,
                               upserted.at, upserted.index,
                               IF found = 0 THEN NoStation ELSE stations[found],
                               Prev(call))
        /\ UNCHANGED <<edges, uuids>>

\* The flag and label writes of the LABEL branch on a station.
ApiSetFlags ==
    \E at \in 1..Len(stations), f \in FlagValues :
        /\ ApiCall
        /\ stations' = [stations EXCEPT ![at] = set_flags(@, Low7(f), new_v4(uuids + 1))]
        /\ uuids' = IF Bit(Low7(f), 32) THEN uuids + 1 ELSE uuids
        /\ call' = Call("set_flags", NoPoint, "", f, NoLrud,
                        at, stations[at].index, stations[at], Prev(call))
        /\ UNCHANGED <<nodes, edges>>

\* station.lrud.update(l, r, u, d)
ApiLrudUpdate ==
    \E at \in 1..Len(stations), lrud \in LrudValues :
        /\ ApiCall
        /\ stations' = [stations EXCEPT ![at].lrud =
                           LRUD_update(@, lrud[1], lrud[2], lrud[3], lrud[4])]
        /\ call' = Call("update", NoPoint, "", 0, lrud,
                        at, stations[at].index, stations[at], Prev(call))
        /\ UNCHANGED <<nodes, edges, uuids>>

\* data.graph.add_edge(a, b, p1.distance(p2)) between two stations
ApiAddEdge ==
    \E from \in 1..Len(stations), to \in 1..Len(stations) :
        /\ ApiCall
        /\ edges' = add_edge(edges, stations[from].index, stations[to].index,
                             Point_distance(stations[from].coords, stations[to].coords))
        /\ call' = Call("add_edge", NoPoint, "", 0, NoLrud,
                        from, stations[from].index, stations[from], Prev(call))
        /\ UNCHANGED <<stations, nodes, uuids>>

\* data.get_by_label_part(fragment)
ApiGetByLabelPart ==
    \E fragment \in Fragments :
        /\ ApiCall
        /\ LET found == get_by_label_part(stations, fragment)
           IN  call' = Call("get_by_label_part", NoPoint, fragment, 0, NoLrud,
                            found,
                            IF found = 0 THEN 0 ELSE stations[found].index,
                            IF found = 0 THEN NoStation ELSE stations[found],
                            Prev(call))
        /\ UNCHANGED <<stations, nodes, edges, uuids>>

NextApi ==
    \/ ApiAddOrUpdate \/ ApiSetFlags \/ ApiLrudUpdate \/ ApiAddEdge
    \/ ApiGetByLabelPart

SpecApi == InitApi /\ [][NextApi]_vars

\* ------------------------------------------------------------ the claims

Positions == 1..Len(stations)
StationLabels == {stations[i].label : i \in Positions}
NodeIndices == 0..(Len(nodes) - 1)

\* C1: after a successful load no two stations share a label, and the number
\* of distinct station labels equals the number of graph nodes.
C1_Uniqueness ==
    pc = "ok" =>
        /\ \A i, j \in Positions : i # j => stations[i].label # stations[j].label
        /\ Cardinality(StationLabels) = Len(nodes)

LabelTextsSeen == {t \in Texts : labelled[t] # "none"}

\* A successful load that met one label text twice, relabelled an anonymous
\* station, holds two stations and resolved an edge.
C1_Witness ==
    /\ pc = "ok"
    /\ Len(stations) = 2
    /\ Cardinality(LabelTextsSeen) = 1
    /\ anonCount >= 1
    /\ Len(edges) >= 1

\* C5: in every state of a load, graph nodes and stations correspond one to
\* one through the station's index: every node is the index of exactly one
\* station, every station's index is a node, and the counts agree.
C5_NodeStationBijection ==
    /\ Len(stations) = Len(nodes)
    /\ \A i \in Positions : stations[i].index \in NodeIndices
    /\ \A n \in NodeIndices :
           Cardinality({i \in Positions : stations[i].index = n}) = 1

\* During edge resolution, with two stations, one of them relabelled, and an
\* edge already inserted.
C5_Witness ==
    /\ pc = "resolve"
    /\ Len(stations) >= 2
    /\ anonCount >= 1
    /\ Len(edges) >= 1

\* The LABEL item just read met a station carrying its text.
LabelMeetsStation ==
    \E i \in Positions : stations[i].label = item'.label

LabelStep == pc = "read" /\ nread' = nread + 1 /\ item'.result = img_LABEL

\* C2 as stated: the station count after a load equals the number of
\* distinct label texts among the LABEL items.
C2_OnePerLabelText ==
    pc = "ok" => Len(stations) = Cardinality(LabelTextsSeen)

\* C2 as amended: a LABEL item whose text is the label of an existing station
\* creates no station and no graph node and only updates that station; one
\* whose text no station carries (also a text whose station was relabelled as
\* anonymous) creates exactly one of each.  In every state the station count
\* is the number of LABEL items with the anonymous bit plus the number of
\* label texts whose last LABEL item had the bit unset.
C2_OnePerCurrentLabel ==
    /\ [](Len(stations) =
            anonCount + Cardinality({t \in Texts : labelled[t] = "named"}))
    /\ [][LabelStep =>
            IF LabelMeetsStation
            THEN /\ Len(stations') = Len(stations)
                 /\ nodes' = nodes
                 /\ \A i \in Positions :
                        stations[i].label # item'.label => stations'[i] = stations[i]
            ELSE /\ Len(stations') = Len(stations) + 1
                 /\ Len(nodes') = Len(nodes) + 1
                 /\ \A i \in Positions : stations'[i] = stations[i]]_vars

\* A successful load of four LABEL items of the one text A, two of them
\* anonymous and the last one named: three stations, and one of the items
\* met a station carrying its text.
C2_Witness ==
    /\ pc = "ok"
    /\ labelled["A"] = "named"
    /\ labelled["B"] = "none"
    /\ anonCount = 2
    /\ Len(stations) = 3
    /\ nread = 5

\* The stations carrying the label of the last call.
CallLabelPositions == {i \in Positions : stations[i].label = call.label}

\* C3: add_or_update(c1, L) and then add_or_update(c2, L) with c1 # c2, from
\* any state of a SurveyData, leave exactly one station with label L, and its
\* coordinates are c2.
C3_UpsertIdempotence ==
    (/\ call.op = "add_or_update"
     /\ call.prev.op = "add_or_update"
     /\ call.prev.label = call.label
     /\ call.prev.coords # call.coords)
    => /\ Cardinality(CallLabelPositions) = 1
       /\ \A i \in CallLabelPositions : stations[i].coords = call.coords

\* Two such calls in a row on a SurveyData that holds another station.
C3_Witness ==
    /\ call.op = "add_or_update"
    /\ call.prev.op = "add_or_update"
    /\ call.prev.label = call.label
    /\ call.prev.coords # call.coords
    /\ Len(stations) >= 2

UpsertOfExisting ==
    /\ ncalls' = ncalls + 1
    /\ call'.op = "add_or_update"
    /\ \E i \in Positions : stations[i].label = call'.label

\* C4: add_or_update for a label that exists returns the existing station's
\* graph index, adds no graph node and no station, and changes nothing but
\* that station's coordinates: its label, flags, LRUD and index, the other
\* stations, the insertion order and the graph's nodes and edges stay.
C4_UpsertFrame ==
    [][UpsertOfExisting =>
        \E i \in Positions :
            /\ stations[i].label = call'.label
            /\ call'.at = i
            /\ call'.index = stations[i].index
            /\ Len(stations') = Len(stations)
            /\ stations'[i] = [stations[i] EXCEPT !.coords = call'.coords]
            /\ \A j \in Positions : j # i => stations'[j] = stations[j]
            /\ nodes' = nodes
            /\ edges' = edges]_vars

\* add_or_update has moved a station that carries a flag, on a SurveyData
\* with a second station and an edge.
C4_Witness ==
    /\ call.op = "add_or_update"
    /\ call.before # NoStation
    /\ call.before.coords # call.coords
    /\ call.before.underground
    /\ Len(stations) >= 2
    /\ Len(edges) >= 1

Reading(v) == IF v < 0 THEN [some |-> FALSE, v |-> 0] ELSE [some |-> TRUE, v |-> v]

\* C6: after update(l, r, u, d) each of left, right, up, down is absent if its
\* input is negative and present with the input value if it is not (zero is
\* present), whatever the readings were before.
C6_LrudSignRule ==
    call.op = "update" =>
        stations[call.at].lrud = [left  |-> Reading(call.lrud[1]),
                                  right |-> Reading(call.lrud[2]),
                                  up    |-> Reading(call.lrud[3]),
                                  down  |-> Reading(call.lrud[4])]

\* update with negative inputs on a station whose readings were present, the
\* right one at zero.
C6_Witness ==
    /\ call.op = "update"
    /\ call.before.lrud.left.some
    /\ call.before.lrud.right = [some |-> TRUE, v |-> 0]
    /\ call.lrud[1] < 0
    /\ call.lrud[2] < 0
    /\ ~stations[call.at].lrud.right.some

\* The position, after a LABEL step, of the station the item's upsert
\* returned: the station that carried the text, else the new last one.
TouchedAt ==
    IF LabelMeetsStation
    THEN CHOOSE i \in Positions : stations[i].label = item'.label
    ELSE Len(stations) + 1

\* surface, underground, entrance, exported, fixed, anonymous, wall
FlagsOf(st) ==
    <<st.surface, st.underground, st.entrance, st.exported, st.fixed,
      st.anonymous, st.wall>>

\* Bits 0x01, 0x02, 0x04, 0x08, 0x10, 0x20, 0x40 of a flag word.
BitsOf(f) == [k \in 1..7 |-> (f \div (2 ^ (k - 1))) % 2 = 1]

FlagsBefore ==
    IF LabelMeetsStation THEN FlagsOf(stations[TouchedAt])
    ELSE [k \in 1..7 |-> FALSE]

\* C7 as stated: after a LABEL item with flag word f the station's seven
\* flags are exactly the low seven bits of f.
C7_FlagsExactlyBits ==
    [][LabelStep => FlagsOf(stations'[TouchedAt]) = BitsOf(item'.flags)]_vars

\* C7 as amended: after a LABEL item with flag word f each of the station's
\* seven flags is true iff it was true before or its bit is set in f; for an
\* item that creates its station the flags are exactly the low seven bits,
\* so 0x1f on a new station sets surface, underground, entrance, exported and
\* fixed and leaves anonymous and wall false.
C7_FlagsAccumulate ==
    [][LabelStep =>
        /\ FlagsOf(stations'[TouchedAt]) =
               [k \in 1..7 |-> FlagsBefore[k] \/ BitsOf(item'.flags)[k]]
        /\ ~LabelMeetsStation =>
               FlagsOf(stations'[TouchedAt]) = BitsOf(item'.flags)
        /\ (~LabelMeetsStation /\ item'.flags % 128 = 31) =>
               FlagsOf(stations'[TouchedAt]) =
                   <<TRUE, TRUE, TRUE, TRUE, TRUE, FALSE, FALSE>>]_vars

\* A LABEL item with the low bits 0x1f has just met a station that carried
\* the wall flag from an earlier item.
C7_Witness ==
    /\ pc = "read"
    /\ item.result = img_LABEL
    /\ item.flags % 128 = 31
    /\ \E i \in Positions :
           /\ stations[i].label = item.label
           /\ FlagsOf(stations[i]) = <<TRUE, TRUE, TRUE, TRUE, TRUE, FALSE, TRUE>>

AnonStep == LabelStep /\ (item'.flags \div 32) % 2 = 1

\* C8: a LABEL item with the anonymous bit leaves its station with a newly
\* generated label, which is not the item's text, not a label text of the
\* input and not the label of any other station, and which the station
\* keeps to the end of the load.
C8_AnonymousRelabel ==
    /\ [][AnonStep =>
            LET i == TouchedAt
            IN  /\ stations'[i].anonymous
                /\ stations'[i].label # item'.label
                /\ stations'[i].label \notin Texts
                /\ \A j \in Positions : stations[j].label # stations'[i].label
                /\ \A j \in 1..Len(stations') :
                       j # i => stations'[j].label # stations'[i].label]_vars
    /\ [][\A i \in Positions :
            stations[i].anonymous =>
                /\ Len(stations') >= i
                /\ stations'[i].label = stations[i].label]_vars
    /\ [](\A i \in Positions :
            stations[i].anonymous =>
                /\ stations[i].label \notin Texts
                /\ \A j \in Positions : j # i => stations[j].label # stations[i].label)

\* A successful load in which an anonymous LABEL item with text A was
\* followed by a named one with the same text: two stations, the first
\* relabelled, the second carrying A.
C8_Witness ==
    /\ pc = "ok"
    /\ labelled["A"] = "named"
    /\ labelled["B"] = "none"
    /\ Len(stations) = 2
    /\ stations[1].anonymous
    /\ stations[2].label = "A"

\* The earliest station at a coordinate, 0 when there is none.
EarliestAt(p) ==
    IF \E i \in Positions : stations[i].coords = p
    THEN CHOOSE i \in Positions :
             /\ stations[i].coords = p
             /\ \A j \in 1..(i - 1) : stations[j].coords # p
    ELSE 0

SquaredDistance(p, q) ==
    (p.x - q.x) * (p.x - q.x) + (p.y - q.y) * (p.y - q.y) + (p.z - q.z) * (p.z - q.z)

\* Edge k is the edge of the k-th buffered pair: it joins the graph indices
\* of the stations found at the pair's coordinates, and its weight w is the
\* Euclidean distance of the pair in thousandths, rounded down:
\* w^2 <= d^2 < (w + 1)^2.
EdgeOfPair(k) ==
    LET p1 == connections[k][1]
        p2 == connections[k][2]
        w == edges[k].weight
        d2 == SquaredDistance(p1, p2) * Milli * Milli
    IN  /\ EarliestAt(p1) # 0
        /\ EarliestAt(p2) # 0
        /\ edges[k].a = stations[EarliestAt(p1)].index
        /\ edges[k].b = stations[EarliestAt(p2)].index
        /\ w >= 0
        /\ w * w <= d2
        /\ d2 < (w + 1) * (w + 1)

Origin == [x |-> 0, y |-> 0, z |-> 0]
Corner == [x |-> 3, y |-> 4, z |-> 0]

\* What the items Move(0,0,0), Label(A at 0,0,0), Line(3,4,0),
\* Label(B at 3,4,0), end of data leave behind: five calls, one buffered pair
\* from (0,0,0) to (3,4,0), station A first at (0,0,0), station B second at
\* (3,4,0).
TriangleLoaded ==
    /\ pc = "ok"
    /\ nread = 5
    /\ connections = << <<Origin, Corner>> >>
    /\ Len(stations) = 2
    /\ stations[1].label = "A" /\ stations[1].coords = Origin
    /\ stations[2].label = "B" /\ stations[2].coords = Corner

\* C9: every edge the resolver inserts for a buffered pair (p1, p2) joins
\* the stations found at p1 and p2 and is weighted by the Euclidean distance
\* between p1 and p2; the 3-4-5 stream yields exactly one edge, between A
\* and B, of weight 5.
C9_EdgeWeights ==
    /\ Len(edges) <= Len(connections)
    /\ \A k \in 1..Len(edges) : EdgeOfPair(k)
    /\ TriangleLoaded =>
           edges = <<[a |-> stations[1].index, b |-> stations[2].index,
                      weight |-> 5 * Milli]>>

\* The 3-4-5 stream has been loaded and its edge inserted.
C9_Witness ==
    /\ TriangleLoaded
    /\ Len(edges) = 1
    /\ nodes = <<"A", "B">>

Endpoints == {connections[k][e] : k \in 1..Len(connections), e \in {1, 2}}

EndOfDataRead == pc \in {"resolve", "ok", "panic"} /\ item.result = img_STOP

\* C10 as stated: when every endpoint coordinate of a LINE item was carried
\* by some LABEL item before the end of the data, the load succeeds and every
\* LINE item produces an edge.
C10_LabelledSomewhere ==
    (EndOfDataRead /\ Endpoints \subseteq labelCoords) =>
        /\ pc # "panic"
        /\ pc = "ok" => Len(edges) = Len(connections)

\* C10 as amended: when the end of the data is read and every endpoint
\* coordinate of a LINE item is then the coordinate of some station (a LABEL
\* item put it there and no later LABEL item of that station moved it
\* away), the load succeeds and every LINE item produces an edge between
\* the earliest stations at its two endpoints, whether the labels came
\* before or after the LINE item.
C10_DeferredResolution ==
    (EndOfDataRead /\ \A p \in Endpoints : EarliestAt(p) # 0) =>
        /\ pc # "panic"
        /\ pc = "ok" =>
               /\ Len(edges) = Len(connections)
               /\ \A k \in 1..Len(edges) : EdgeOfPair(k)

\* A successful load in which a LINE item came before the labels of its
\* endpoints and produced an edge between two stations.
C10_Witness ==
    /\ pc = "ok"
    /\ forward
    /\ Len(edges) >= 1
    /\ edges[1].a # edges[1].b

\* The readings update(l, r, u, d) leaves: a negative input absent.
Normalized(lrud) ==
    [left  |-> Reading(lrud[1]), right |-> Reading(lrud[2]),
     up    |-> Reading(lrud[3]), down  |-> Reading(lrud[4])]

\* An XSECT item with bit 0x20 set is read right after an XSECT item with
\* the bit unset.
CarryStep ==
    /\ pc = "read"
    /\ nread' = nread + 1
    /\ item.result = img_XSECT /\ (item.flags \div 32) % 2 = 0
    /\ item'.result = img_XSECT /\ (item'.flags \div 32) % 2 = 1

\* C11: of two consecutive XSECT items, the first with bit 0x20 unset and
\* naming an existing station S, the second with the bit set, both LRUD
\* updates go to S: S carries the first item's normalized readings before
\* the second item and the second item's after it, the load goes on, and no
\* other station and nothing else of S changes.
C11_LabelCarryOver ==
    [][CarryStep =>
        \E s \in Positions :
            /\ stations[s].label = item.label
            /\ stations[s].lrud = Normalized(item.lrud)
            /\ pc' = "read"
            /\ stations' = [stations EXCEPT ![s].lrud = Normalized(item'.lrud)]
            /\ label' = item.label]_vars

\* Two such items have been read on a load with two stations: the first
\* station, named by the first item, carries the second item's readings
\* (only down present), the second station has no readings.
C11_Witness ==
    /\ carried
    /\ pc = "read"
    /\ Len(stations) = 2
    /\ stations[1].label = label
    /\ item.lrud = <<-1, -1, -1, 90>>
    /\ stations[1].lrud = Normalized(item.lrud)
    /\ stations[2].lrud = LRUD_default

LineStep == pc = "read" /\ nread' = nread + 1 /\ item'.result = img_LINE

\* C12: the buffer of pairs starts empty and grows by exactly one pair with
\* each LINE item and with nothing else, and a successful load has inserted
\* one edge for each pair: the number of edges is the number of LINE items,
\* and LINE items between the same coordinates each have an edge of their
\* own, equal in endpoints and weight.
C12_OneEdgePerLine ==
    /\ [](pc = "open" => connections = <<>>)
    /\ [][IF LineStep THEN Len(connections') = Len(connections) + 1
                      ELSE connections' = connections]_vars
    /\ [](pc = "ok" =>
            /\ Len(edges) = Len(connections)
            /\ \A j, k \in 1..Len(connections) :
                   (j < k /\ connections[j] = connections[k]) =>
                       /\ edges[j] = edges[k]
                       /\ Cardinality({e \in 1..Len(edges) : edges[e] = edges[j]}) >= 2)

\* A successful load of two LINE items between the same coordinates, which
\* one station is at: two parallel edges.
C12_Witness ==
    /\ pc = "ok"
    /\ Len(connections) = 2
    /\ connections[1] = connections[2]
    /\ Len(edges) = 2
    /\ edges[1] = edges[2]

BadStep == pc = "read" /\ nread' = nread + 1 /\ item'.result = img_BAD

XsectStep == pc = "read" /\ nread' = nread + 1 /\ item'.result = img_XSECT

\* The label an XSECT item resolves to: the kept one when bit 0x20 is set.
XsectName == IF (item'.flags \div 32) % 2 = 1 THEN label ELSE item'.label

ResolveStep == pc = "resolve" /\ ci <= Len(connections)

\* C14: an XSECT item whose label no station carries, and a buffered pair
\* with an endpoint no station is at, abort the load by a panic: no LRUD and
\* no edge is written in that step, nothing happens after it, and no
\* SurveyData is returned.  Otherwise the XSECT item updates the LRUD of the
\* station that carries the label and the resolver inserts exactly one edge,
\* so no update is skipped and every edge joins the indices of two stations.
C14_UnresolvedIsFatal ==
    /\ [][XsectStep =>
            IF \A i \in Positions : stations[i].label # XsectName
            THEN pc' = "panic" /\ UNCHANGED data
            ELSE /\ pc' = "read"
                 /\ \E i \in Positions :
                        /\ stations[i].label = XsectName
                        /\ stations'[i].lrud = Normalized(item'.lrud)]_vars
    /\ [][ResolveStep =>
            IF \E e \in {1, 2} : EarliestAt(connections[ci][e]) = 0
            THEN pc' = "panic" /\ UNCHANGED data
            ELSE pc' = "resolve" /\ Len(edges') = Len(edges) + 1]_vars
    /\ [][pc = "panic" => UNCHANGED vars]_vars
    /\ [](\A k \in 1..Len(edges) :
            \E i, j \in Positions :
                edges[k].a = stations[i].index /\ edges[k].b = stations[j].index)

\* The resolver has inserted the edge of one pair and panicked on the next,
\* which has an endpoint no station is at.
C14_Witness ==
    /\ pc = "panic"
    /\ item.result = img_STOP
    /\ Len(edges) = 1
    /\ ci = 2
    /\ \E e \in {1, 2} : EarliestAt(connections[2][e]) = 0

\* C15: when img_open_survey fails, load_from_path returns Err at once: no
\* item has been read, the SurveyData is still empty and is not returned,
\* and nothing happens afterwards; a SurveyData is returned only after the
\* open succeeded.
C15_OpenFailure ==
    /\ [](pimg = "null" =>
            /\ pc = "err"
            /\ nread = 0
            /\ stations = <<>> /\ nodes = <<>> /\ edges = <<>>
            /\ connections = <<>>)
    /\ [][pc = "err" => UNCHANGED vars]_vars
    /\ [](pc \in {"read", "resolve", "ok"} => pimg = "handle")

\* The open has failed and load_from_path has returned Err.
C15_Witness ==
    /\ pimg = "null"
    /\ pc = "err"

\* The stations whose label contains the fragment of the last call, and
\* those among them whose label is the fragment.
Containing == {i \in Positions : contains(stations[i].label, call.label)}
Equal == {i \in Containing : stations[i].label = call.label}

\* C16: get_by_label_part(fragment) returns station S exactly when S is the
\* only station whose label contains the fragment, or several labels contain
\* it and S is the one whose label equals it; it returns nothing when no
\* label contains the fragment, or several do and none equals it; and the
\* call changes no station and nothing of the graph.
C16_SubstringLookup ==
    /\ [](call.op = "get_by_label_part" =>
            /\ call.at \in Positions \cup {0}
            /\ \A s \in Positions :
                   call.at = s <=>
                       \/ Containing = {s}
                       \/ Cardinality(Containing) > 1 /\ Equal = {s}
            /\ call.at = 0 <=>
                   \/ Containing = {}
                   \/ Cardinality(Containing) > 1 /\ Equal = {})
    /\ [][(ncalls' = ncalls + 1 /\ call'.op = "get_by_label_part") =>
            UNCHANGED <<stations, nodes, edges>>]_vars

\* The fragment A looked up where AB was registered before A: two labels
\* contain it and the second station, whose label equals it, is returned.
C16_Witness ==
    /\ call.op = "get_by_label_part"
    /\ call.label = "A"
    /\ Len(stations) >= 2
    /\ stations[1].label = "AB"
    /\ stations[2].label = "A"
    /\ call.at = 2

MoveStep == pc = "read" /\ nread' = nread + 1 /\ item'.result = img_MOVE

\* C17: a MOVE item sets (x, y, z) to its point and changes nothing else; a
\* LINE item appends the one pair ((x, y, z) before the item, its point) to
\* the end of connections and then sets (x, y, z) to its point; neither
\* changes a station, the graph or label, and no step of a load changes or
\* removes an earlier entry of connections.
C17_MoveLineFrame ==
    /\ [][MoveStep =>
            /\ pos' = item'.p
            /\ UNCHANGED <<pc, stations, nodes, edges, connections, label, uuids, ci>>]_vars
    /\ [][LineStep =>
            /\ connections' = Append(connections, <<pos, item'.p>>)
            /\ pos' = item'.p
            /\ UNCHANGED <<pc, stations, nodes, edges, label, uuids, ci>>]_vars
    /\ [][/\ Len(connections') >= Len(connections)
          /\ \A k \in 1..Len(connections) : connections'[k] = connections[k]]_vars

\* Two LINE items have been read, the first between two different
\* coordinates, with a station registered: the second pair starts where the
\* first ended and (x, y, z) is where the second ended.
C17_Witness ==
    /\ pc = "read"
    /\ item.result = img_LINE
    /\ Len(stations) >= 1
    /\ Len(connections) = 2
    /\ connections[1][1] # connections[1][2]
    /\ connections[2][1] = connections[1][2]
    /\ pos = connections[2][2]

XsectNamed == XsectStep /\ (item'.flags \div 32) % 2 = 0
XsectUnnamed == XsectStep /\ (item'.flags \div 32) % 2 = 1

\* C18 as stated: label changes only when an XSECT item with bit 0x20 unset
\* is processed.
C18_OnlyXsectSetsLabel ==
    [][label' # label => XsectNamed]_vars

\* C18 as amended: label changes only when a LABEL item or an XSECT item
\* with bit 0x20 unset is processed, and each of them sets it to the item's
\* text; every other step leaves it unchanged.  So an XSECT item with the
\* bit set looks up the text of the most recent LABEL item or XSECT item
\* with the bit unset: it updates the station carrying that text, and
\* panics when no station does.
C18_LabelAlsoSetsLabel ==
    /\ [][(LabelStep \/ XsectNamed) => label' = item'.label]_vars
    /\ [][~(LabelStep \/ XsectNamed) => label' = label]_vars
    /\ [][XsectUnnamed =>
            IF \A i \in Positions : stations[i].label # label
            THEN pc' = "panic" /\ UNCHANGED data
            ELSE \E i \in Positions :
                     /\ stations[i].label = label
                     /\ stations' = [stations EXCEPT
                                       ![i].lrud = Normalized(item'.lrud)]]_vars

\* Four items: LABEL A, an XSECT item that gave A its readings, LABEL B, and
\* an XSECT item with bit 0x20 set, which gave its readings to B.
C18_Witness ==
    /\ pc = "read"
    /\ nread = 4
    /\ item.result = img_XSECT
    /\ (item.flags \div 32) % 2 = 1
    /\ Len(stations) = 2
    /\ stations[1].label = "A"
    /\ stations[1].lrud # LRUD_default
    /\ stations[2].label = "B"
    /\ label = "B"
    /\ stations[2].lrud = Normalized(item.lrud)

\* C19: while items are still being read the graph has no edge; an edge is
\* only ever inserted by the loop over connections, one at a time, after the
\* end of the data has been read; and from the end of the data on no
\* station and no graph node changes, so every edge insertion comes after
\* the last change of a station.
C19_EdgesInSecondPass ==
    /\ [](pc \in {"open", "read", "err"} => edges = <<>>)
    /\ [](edges # <<>> => EndOfDataRead)
    /\ [][edges' # edges =>
            /\ pc = "resolve"
            /\ item.result = img_STOP
            /\ edges' = Append(edges, edges'[Len(edges')])]_vars
    /\ [][EndOfDataRead => UNCHANGED <<stations, nodes>>]_vars

\* In the middle of the second pass: a LINE item was read before a station
\* at one of its ends was registered, one edge is in, one pair is left.
C19_Witness ==
    /\ pc = "resolve"
    /\ forward
    /\ Len(connections) = 2
    /\ ci = 2
    /\ Len(edges) = 1
    /\ Len(stations) >= 1

\* C20: no step of a load removes or reorders a station or changes its
\* index: the vector of stations only grows, by one station pushed at its
\* end, whose index is the node count before the push; every station
\* already there stays at its position with its index; so the stations are
\* always in the order of their creation.
C20_StationsStable ==
    /\ [][/\ Len(stations') \in {Len(stations), Len(stations) + 1}
          /\ \A i \in Positions : stations'[i].index = stations[i].index
          /\ Len(stations') = Len(stations) + 1 =>
                 stations'[Len(stations')].index = Len(nodes)]_vars
    /\ [](\A i, j \in Positions :
            i < j => stations[i].index < stations[j].index)

\* A LABEL item has just come back to the first of two stations, carrying
\* flags and coordinates for it.
C20_Witness ==
    /\ pc = "read"
    /\ item.result = img_LABEL
    /\ Len(stations) = 2
    /\ stations[1].label = item.label
    /\ stations[1].coords = item.p
    /\ stations[1].coords # stations[2].coords
    /\ stations[1].wall

\* The weight of the graph node of the station at position i.
NodeName(i) == nodes[stations[i].index + 1]

\* C21: in every state of a load, the graph node of a station whose
\* anonymous flag is false is named by the station's label; the graph node
\* of a station relabelled by an anonymous LABEL item is named by a label
\* text of the input while the station's label is a generated identifier.
\* A node is named by the text of the LABEL item that creates it, and no
\* later step renames it.
C21_NodeNames ==
    /\ [](\A i \in Positions :
            IF stations[i].anonymous
            THEN /\ NodeName(i) \in Texts
                 /\ stations[i].label \notin Texts
                 /\ \E n \in 1..uuids : stations[i].label = new_v4(n)
            ELSE NodeName(i) = stations[i].label)
    /\ [][Len(nodes') > Len(nodes) =>
            /\ LabelStep
            /\ nodes' = Append(nodes, item'.label)]_vars
    /\ [][\A k \in 1..Len(nodes) : nodes'[k] = nodes[k]]_vars

\* A named station and a station relabelled by an anonymous LABEL item of
\* text B, side by side after a successful load.
C21_Witness ==
    /\ pc = "ok"
    /\ Len(stations) = 2
    /\ ~stations[1].anonymous /\ stations[1].label = "A" /\ NodeName(1) = "A"
    /\ stations[2].anonymous /\ NodeName(2) = "B" /\ stations[2].label = new_v4(1)

\* The coordinates a lookup may be asked for: those the decoder delivers and
\* the initial (x, y, z).
LookupPoints == Points \cup {[x |-> -1, y |-> -1, z |-> -1]}

\* C22: in every state get_by_coords(p) is the earliest-created station
\* whose current coordinates are p, and nothing when no station is at p;
\* so every edge is attached, at each end, to the earliest-created of the
\* stations that are at the endpoint's coordinate when the data has been
\* read, and to none of the later stations at that coordinate.
C22_FirstAtCoordinate ==
    /\ \A p \in LookupPoints :
           LET found == get_by_coords(stations, p)
           IN  IF \A i \in Positions : stations[i].coords # p
               THEN found = 0
               ELSE /\ found \in Positions
                    /\ stations[found].coords = p
                    /\ \A j \in Positions :
                           stations[j].coords = p =>
                               stations[found].index <= stations[j].index
    /\ \A k \in 1..Len(edges) :
           /\ edges[k].a = stations[EarliestAt(connections[k][1])].index
           /\ edges[k].b = stations[EarliestAt(connections[k][2])].index
           /\ \A j \in Positions :
                  /\ (stations[j].coords = connections[k][1]
                      /\ j # EarliestAt(connections[k][1]))
                         => edges[k].a # stations[j].index
                  /\ (stations[j].coords = connections[k][2]
                      /\ j # EarliestAt(connections[k][2]))
                         => edges[k].b # stations[j].index

\* A successful load with two stations at one coordinate and an edge with
\* an end there: the edge is on the first station's node, and the second
\* station's node has no edge.
C22_Witness ==
    /\ pc = "ok"
    /\ Len(stations) = 2
    /\ stations[1].coords = stations[2].coords
    /\ Len(edges) >= 1
    /\ edges[1].a = stations[1].index
    /\ \A k \in 1..Len(edges) :
           stations[2].index \notin {edges[k].a, edges[k].b}

IgnoredStep ==
    /\ pc = "read"
    /\ nread' = nread + 1
    /\ item'.result \in {img_CROSS, img_XSECT_END, img_ERROR_INFO}

\* C23: a CROSS, XSECT_END or ERROR_INFO item changes nothing: (x, y, z),
\* label, connections, every station and the graph stay as they were, and
\* the load goes on reading.
C23_IgnoredItems ==
    [][IgnoredStep =>
        /\ pc' = "read"
        /\ UNCHANGED <<pos, label, connections, stations, nodes, edges, uuids, ci>>]_vars

\* An XSECT_END item has just been read on a load that has buffered a pair,
\* registered a station and given it readings.
C23_Witness ==
    /\ pc = "read"
    /\ item.result = img_XSECT_END
    /\ pos # [x |-> -1, y |-> -1, z |-> -1]
    /\ Len(connections) = 1
    /\ Len(stations) = 1
    /\ label = stations[1].label
    /\ stations[1].lrud # LRUD_default

\* C24: no step of a load turns a flag of a station from true to false, and
\* in every state each station's flags are the union of the flag bits of
\* all the LABEL items that reached it: a flag is true iff its mask was set
\* in at least one of them.
C24_FlagsMonotone ==
    /\ [][\A i \in Positions : \A k \in 1..7 :
            FlagsOf(stations[i])[k] => FlagsOf(stations'[i])[k]]_vars
    /\ [](/\ Len(flagsSeen) = Len(stations)
          /\ \A i \in Positions :
                 FlagsOf(stations[i]) = [k \in 1..7 |-> 2 ^ (k - 1) \in flagsSeen[i]])

\* A successful load whose one station was reached by LABEL items with the
\* flag words 0xc2 and 0x9f: it carries underground and wall from the one,
\* surface, entrance, exported and fixed from the other, which are the low
\* bits of neither.
C24_Witness ==
    /\ pc = "ok"
    /\ Len(stations) = 1
    /\ flagsSeen[1] = {1, 2, 4, 8, 16, 64}
    /\ FlagsOf(stations[1]) = <<TRUE, TRUE, TRUE, TRUE, TRUE, FALSE, TRUE>>

Sentinel == [x |-> -1, y |-> -1, z |-> -1]

\* C25: a LABEL or XSECT item leaves (x, y, z) and connections unchanged;
\* (x, y, z) starts as (-1, -1, -1) and changes only with a MOVE or LINE
\* item, which sets it to the item's point; and the pair a LINE item pushes
\* starts at (x, y, z).  So the origin of a LINE item is the point of the
\* most recent MOVE or LINE item, or (-1, -1, -1) when there was none, and
\* never the coordinate a LABEL item carried in between.
C25_LabelKeepsPosition ==
    /\ [][(LabelStep \/ XsectStep) => UNCHANGED <<pos, connections>>]_vars
    /\ [](nread = 0 => pos = Sentinel)
    /\ [][IF MoveStep \/ LineStep THEN pos' = item'.p ELSE pos' = pos]_vars
    /\ [][LineStep => connections'[Len(connections')][1] = pos]_vars

\* Two items, a LABEL item at a coordinate and then a LINE item: the pair
\* starts at (-1, -1, -1), not at the station's coordinate.
C25_Witness ==
    /\ pc = "read"
    /\ nread = 2
    /\ item.result = img_LINE
    /\ Len(stations) = 1
    /\ Len(connections) = 1
    /\ connections[1][1] = Sentinel
    /\ connections[1][1] # stations[1].coords

====
